---- MODULE Spec2Model ----
(***************************************************************************)
(* Model of otel_broccoli's distribution engine (src/src/augmentation.rs): *)
(* duration parsing, time range resolution, the dispatcher and the three   *)
(* distributors (even, early_fill, sparse_fill).                           *)
(*                                                                         *)
(* Conventions.                                                            *)
(*  - A Rust String whose characters the code inspects is a sequence of    *)
(*    one-character strings (<<"1","0","m">> is "10m").                    *)
(*  - Option<T> is <<>> (None) or <<v>> (Some(v)).                         *)
(*  - Result<T,E> and a panic are records [kind, value, msg]; kind is      *)
(*    "ok", "err", "panic", "hang" (a loop that cannot exit) or "none"     *)
(*    (nothing returned yet).                                              *)
(*  - DateTime<Utc> is a number of seconds since the epoch and a chrono    *)
(*    Duration is a number of seconds.                                     *)
(***************************************************************************)
EXTENDS Integers, Sequences, FiniteSets, TLC

VARIABLES
    input,                   \* argument of a direct parse_time_duration call
    cfg,                     \* the Config the caller passes
    api,                     \* the top-level function the caller invoked
    pc,                      \* position in the running function
    result,                  \* what the top-level function returned
    clock_reads,             \* the instants Utc::now() has returned so far
    overflow_checks,         \* build profile: TRUE panics on overflow, FALSE wraps
    callee,                  \* the distributor the dispatcher invoked
    start_time,              \* distributor argument
    duration_in_seconds,     \* distributor argument
    num_entries_to_generate, \* distributor argument
    datapoints,              \* the Vec<DataPoint> being filled
    sum,                     \* running sum local of the active loop
    iter,                    \* loop counter of the active loop
    num_of_zone,             \* sparse fill: number of zones drawn
    zone_allocations,        \* sparse fill: Vec<u32> of zone totals
    data_zones,              \* sparse fill: Vec<DataZone> of candidate slots
    zone_cursor,             \* sparse fill: index of the zone being placed / emitted
    data_points,             \* sparse fill: Vec<DataPoint> local of the zone emission
    slots_length,            \* pick_2_random_datapoint argument
    first_slot,              \* pick_2_random_datapoint local
    second_slot              \* pick_2_random_datapoint local

vars == <<input, cfg, api, pc, result, clock_reads, overflow_checks, callee,
          start_time, duration_in_seconds, num_entries_to_generate, datapoints,
          sum, iter, num_of_zone, zone_allocations, data_zones, zone_cursor,
          data_points, slots_length, first_slot, second_slot>>

----------------------------------------------------------------------------
(* Bounds of the model *)

\* longest string handed to parse_time_duration
MaxLen == 4
\* largest number_of_entries of a Config handed to the dispatcher
MaxCfgEntries == 1
\* the second clock read is at most this many seconds after the first
MaxClockSkew == 1
\* even distributor called directly: targets 0..MaxEvenTarget over
\* 1..MaxEvenDuration seconds
MaxEvenTarget == 10
MaxEvenDuration == 6
\* early-fill distributor called directly: targets 0..MaxEarlyTarget and
\* 100..100+MaxEarlyExtra (logical ceiling 1) over 0..MaxEarlyDuration and
\* 100..100+MaxEarlyExtra seconds, and targets of logical ceiling 2 over
\* 0..MaxEarlyDuration seconds
MaxEarlyTarget == 2
MaxEarlyDuration == 3
MaxEarlyExtra == 1
\* sparse-fill distributor called directly: targets 0..MaxSparseTarget
MaxSparseTarget == 2
\* pick_2_random_datapoint is called on its own with 0..MaxPickBound slots
MaxPickBound == 6
\* load_config is given custom and default configurations of up to
\* MaxExporters exporters each
MaxExporters == 2

----------------------------------------------------------------------------
(* Option and Result *)

None == <<>>
Some(v) == <<v>>
is_none(o) == o = <<>>
unwrap(o) == o[1]

Ok(v) == [kind |-> "ok", value |-> v, msg |-> <<>>]
Err(m) == [kind |-> "err", value |-> <<>>, msg |-> m]
Panic(m) == [kind |-> "panic", value |-> <<>>, msg |-> m]
Hang == [kind |-> "hang", value |-> <<>>, msg |-> <<>>]
NoResult == [kind |-> "none", value |-> <<>>, msg |-> <<>>]

----------------------------------------------------------------------------
(* Duration parser *)

DigitValue ==
    [c \in {"0", "1", "2", "3", "4", "5", "6", "7", "8", "9"} |->
        CASE c = "0" -> 0 [] c = "1" -> 1 [] c = "2" -> 2 [] c = "3" -> 3
          [] c = "4" -> 4 [] c = "5" -> 5 [] c = "6" -> 6 [] c = "7" -> 7
          [] c = "8" -> 8 [] c = "9" -> 9]

is_ascii_digit(c) == c \in DOMAIN DigitValue

\* mutant: a sign in front of the digits belongs to the number
find_non_digit_after_sign(value) ==
    LET hits == {i \in 1..Len(value) :
                     /\ ~is_ascii_digit(value[i])
                     /\ ~(i = 1 /\ value[i] \in {"+", "-"})}
    IN  IF hits = {} THEN None
        ELSE Some(CHOOSE i \in hits : \A j \in hits : i <= j)

\* str::find with a predicate: the 1-based index of the first character that
\* is not an ASCII digit, None when every character is a digit.
find_non_digit(value) ==
    LET hits == {i \in 1..Len(value) : ~is_ascii_digit(value[i])}
    IN  IF hits = {} THEN None
        ELSE Some(CHOOSE i \in hits : \A j \in hits : i <= j)

RECURSIVE digits_value(_)
digits_value(num) ==
    IF num = <<>> THEN 0
    ELSE digits_value(SubSeq(num, 1, Len(num) - 1)) * 10 + DigitValue[num[Len(num)]]

\* str::parse::<i64>: an optional sign and at least one ASCII digit give the
\* decimal value (MaxLen keeps it far below 2^63), anything else is an error.
parse_i64(num) ==
    LET signed == num # <<>> /\ num[1] \in {"+", "-"}
        digits == IF signed THEN Tail(num) ELSE num
    IN  IF digits = <<>> \/ \E i \in 1..Len(digits) : ~is_ascii_digit(digits[i])
        THEN None
        ELSE IF signed /\ num[1] = "-" THEN Some(0 - digits_value(digits))
        ELSE Some(digits_value(digits))

parse_time_duration_value_and_unit(value) ==
    LET idx == find_non_digit(value)
    IN  IF is_none(idx) THEN None
        ELSE LET num == SubSeq(value, 1, unwrap(idx) - 1)
                 unit == SubSeq(value, unwrap(idx), Len(value))
                 n == parse_i64(num)
             IN  IF is_none(n) THEN None
                 ELSE Some(<<unwrap(n), unit>>)

Duration_seconds(n) == n
Duration_minutes(n) == n * 60
Duration_hours(n) == n * 3600
Duration_days(n) == n * 86400
Duration_zero == Duration_seconds(0)

ParseDurationFailure == <<"failed to parse time duration value and unit">>

\* mutant: an unsupported unit is refused (the arm commented out at line 99)
parse_time_duration_strict_unit(value) ==
    LET parsed_value_and_unit == parse_time_duration_value_and_unit(value)
    IN  IF is_none(parsed_value_and_unit) THEN Err(ParseDurationFailure)
        ELSE LET num == unwrap(parsed_value_and_unit)[1]
                 unit == unwrap(parsed_value_and_unit)[2]
             IN  CASE unit = <<"s">> -> Ok(Duration_seconds(num))
                   [] unit = <<"m">> -> Ok(Duration_minutes(num))
                   [] unit = <<"h">> -> Ok(Duration_hours(num))
                   [] unit = <<"d">> -> Ok(Duration_days(num))
                   [] OTHER -> Err(<<"invalid time duration unit">>)

parse_time_duration(value) ==
    LET parsed_value_and_unit == parse_time_duration_value_and_unit(value)
    IN  IF is_none(parsed_value_and_unit) THEN Err(ParseDurationFailure)
        ELSE LET num == unwrap(parsed_value_and_unit)[1]
                 unit == unwrap(parsed_value_and_unit)[2]
             IN  CASE unit = <<"s">> -> Ok(Duration_seconds(num))
                   [] unit = <<"m">> -> Ok(Duration_minutes(num))
                   [] unit = <<"h">> -> Ok(Duration_hours(num))
                   [] unit = <<"d">> -> Ok(Duration_days(num))
                   [] OTHER -> Ok(Duration_zero)

----------------------------------------------------------------------------
(* Time range resolver *)

\* The format string the tests and the default configuration use.
ValidFormat == "%Y-%m-%dT%H:%M:%S%.f%:z"
ValidTimestamp == "2022-01-01T00:00:00.000+00:00"
\* 2022-01-01T00:00:00Z in seconds since the epoch
ValidTimestampInstant == 1640995200
ChronoInvalid == "input contains invalid characters"

\* chrono's DateTime::parse_from_str followed by with_timezone(&Utc), on the
\* timestamp / format pairs of the model: the one matching pair parses, any
\* other pair fails with chrono's ParseErrorKind::Invalid.
DateTime_parse_from_str(s, fmt) ==
    IF s = ValidTimestamp /\ fmt = ValidFormat
    THEN Ok(ValidTimestampInstant)
    ELSE Err(<<ChronoInvalid>>)

\* format!("failed to parse start_timestamp [{}] with format [{}]: {}", ..)
timestamp_error(s, fmt, reason) ==
    <<"failed to parse start_timestamp [", s, "] with format [", fmt, "]: ">>
        \o reason

UnwrapNone == <<"called Option::unwrap() on a None value">>

\* mutant: the parse result is unwrapped (the code commented out at lines
\* 34-39), so a timestamp that does not parse aborts the process
resolve_start_unwrapping(c, now_1, now_2) ==
    IF ~is_none(c.use_now_as_timestamp) /\ ~unwrap(c.use_now_as_timestamp)
    THEN IF is_none(c.start_timestamp) \/ is_none(c.timestamp_format)
         THEN Panic(UnwrapNone)
         ELSE LET intermediate_start_time ==
                      DateTime_parse_from_str(unwrap(c.start_timestamp),
                                              unwrap(c.timestamp_format))
              IN  IF intermediate_start_time.kind = "err"
                  THEN Panic(<<"called Result::unwrap() on an Err value">>)
                  ELSE Ok(<<intermediate_start_time.value,
                            intermediate_start_time.value>>)
    ELSE Ok(<<now_1, now_2>>)

\* Lines 23-60: the two clock reads and the optional fixed start.
\* Ok(<<start_time, end_time>>), or the early return of line 47.
resolve_start(c, now_1, now_2) ==
    IF ~is_none(c.use_now_as_timestamp) /\ ~unwrap(c.use_now_as_timestamp)
    THEN IF is_none(c.start_timestamp) \/ is_none(c.timestamp_format)
         THEN Panic(UnwrapNone)
         ELSE LET intermediate_start_time ==
                      DateTime_parse_from_str(unwrap(c.start_timestamp),
                                              unwrap(c.timestamp_format))
              IN  IF intermediate_start_time.kind = "err"
                  THEN Err(timestamp_error(unwrap(c.start_timestamp),
                                           unwrap(c.timestamp_format),
                                           intermediate_start_time.msg))
                  ELSE Ok(<<intermediate_start_time.value,
                            intermediate_start_time.value>>)
    ELSE Ok(<<now_1, now_2>>)

\* mutant: the duration is added to end_time, the second clock read
generate_time_range_from_end_time(c, now_1, now_2) ==
    LET s == resolve_start(c, now_1, now_2)
    IN  IF s.kind # "ok" THEN s
        ELSE IF is_none(c.generation_duration) THEN s
        ELSE LET value_and_unit == parse_time_duration(unwrap(c.generation_duration))
             IN  IF value_and_unit.kind = "err" THEN value_and_unit
                 ELSE Ok(<<s.value[1], s.value[2] + value_and_unit.value>>)

\* now_1 and now_2 are what the two Utc::now() calls of lines 23-24 return.
generate_time_range(c, now_1, now_2) ==
    LET s == resolve_start(c, now_1, now_2)
    IN  IF s.kind # "ok" THEN s
        ELSE IF is_none(c.generation_duration) THEN s
        ELSE LET value_and_unit == parse_time_duration(unwrap(c.generation_duration))
             IN  IF value_and_unit.kind = "err" THEN value_and_unit
                 ELSE Ok(<<s.value[1], s.value[1] + value_and_unit.value>>)

----------------------------------------------------------------------------
(* Dispatcher helpers *)

UpperCase == <<"A", "B", "C", "D", "E", "F", "G", "H", "I", "J", "K", "L", "M",
               "N", "O", "P", "Q", "R", "S", "T", "U", "V", "W", "X", "Y", "Z">>
LowerCase == <<"a", "b", "c", "d", "e", "f", "g", "h", "i", "j", "k", "l", "m",
               "n", "o", "p", "q", "r", "s", "t", "u", "v", "w", "x", "y", "z">>

to_lowercase_char(c) ==
    IF \E i \in 1..Len(UpperCase) : UpperCase[i] = c
    THEN LowerCase[CHOOSE i \in 1..Len(UpperCase) : UpperCase[i] = c]
    ELSE c

to_lowercase(s) == [i \in 1..Len(s) |-> to_lowercase_char(s[i])]

NameEven == <<"e", "v", "e", "n">>
NameEarlyFill == <<"e", "a", "r", "l", "y", "_", "f", "i", "l", "l">>
NameSparseFill == <<"s", "p", "a", "r", "s", "e", "_", "f", "i", "l", "l">>

\* line 127
distribution_model(c) == to_lowercase(unwrap(c.distribution_by))

\* mutant: the catch-all arm falls back to the even distributor
match_model_with_default(model) ==
    CASE model = NameEarlyFill -> "generate_datapoints_early_fill"
      [] model = NameSparseFill -> "generate_datapoints_sparse_fill"
      [] OTHER -> "generate_datapoints_even"

\* The match of lines 128-152: the distributor an already lower-cased name
\* selects, "none" for the catch-all arm.
match_model(model) ==
    CASE model = NameEven -> "generate_datapoints_even"
      [] model = NameEarlyFill -> "generate_datapoints_early_fill"
      [] model = NameSparseFill -> "generate_datapoints_sparse_fill"
      [] OTHER -> "none"

\* format!("unknown distribution model [{}]", model)
unknown_model_error(model) ==
    <<"unknown distribution model [">> \o model \o <<"]">>

\* Duration::num_seconds on a whole number of seconds
num_seconds(d) == d

----------------------------------------------------------------------------
(* Integer widths *)

\* x as i16: the low 16 bits, read as two's complement
as_i16(x) ==
    LET m == x % 65536
    IN  IF m >= 32768 THEN m - 65536 ELSE m

i16_fits(x) == -32768 <= x /\ x <= 32767

\* (n as f32 * 0.2) as u32: for n < 2^24 the f32 product truncates to n / 5
num_shuffles(n) == n \div 5

\* (n as f32 * 0.01) as u32: for n < 2^24 the f32 product truncates to n / 100
logical_ceiling(n) == n \div 100

DivideByZero == <<"attempt to divide by zero">>
SubtractOverflow == <<"attempt to subtract with overflow">>
AddOverflow == <<"attempt to add with overflow">>
EmptyRange == <<"cannot sample empty range">>

DataPoint(t, r) == [timestamp |-> t, rows_to_add |-> r]

\* mutant: the loop of lines 212-217 is left out, so the second draw is
\* returned as it comes
pick_2_random_datapoint_without_redraw(len) ==
    (0..(len - 1)) \X (0..(len - 1))

\* What pick_2_random_datapoint can return: its loop exits exactly when
\* second_slot differs from first_slot, both drawn from 0..slots_length-1.
\* The set is empty for slots_length = 1, where the loop cannot exit.
pick_2_random_datapoint(len) ==
    {p \in (0..(len - 1)) \X (0..(len - 1)) : p[2] # p[1]}

----------------------------------------------------------------------------
(* Shared pieces of the actions *)

env_vars == <<input, cfg, overflow_checks>>
call_vars == <<api, callee, start_time, duration_in_seconds,
               num_entries_to_generate>>
sparse_vars == <<num_of_zone, zone_allocations, data_zones, zone_cursor,
                 data_points>>
pick_vars == <<slots_length, first_slot, second_slot>>

\* The running function stops with outcome r (an error, a panic, a hang).
Finish(r) ==
    /\ pc' = "done"
    /\ result' = r

\* A distributor returns Ok(()); generate_datapoints then returns
\* Ok(datapoints) (line 153).
ReturnOk ==
    /\ pc' = "done"
    /\ result' = IF api = "generate_datapoints" THEN Ok(datapoints') ELSE Ok(<<>>)

\* pick_2_random_datapoint(len) does not return: random_range(0..len) panics
\* on an empty range, and with len = 1 every draw is 0 so the loop spins.
pick_fails(len) == len <= 1
pick_failure(len) == IF len <= 0 THEN Panic(EmptyRange) ELSE Hang

\* rows_to_add -= delta on slot first, rows_to_add += delta on slot second
\* (1-based here), in 16-bit arithmetic.
transfer(points, first, second, delta) ==
    [points EXCEPT ![first].rows_to_add = as_i16(@ - delta),
                   ![second].rows_to_add = as_i16(@ + delta)]

transfer_overflows(points, first, second, delta) ==
    \/ ~i16_fits(points[first].rows_to_add - delta)
    \/ ~i16_fits(points[second].rows_to_add + delta)

----------------------------------------------------------------------------
(* Even distributor, lines 156-205 *)

\* mutant: Duration::seconds(i) is left out of lines 171 and 177, so every
\* DataPoint carries the start instant
even_first_fill_at_start(start, duration, target) ==
    LET per_datapoint_entries_to_generate == target \div duration
        last_datapoint_index == duration - 1
    IN  [k \in 1..duration |->
            IF k - 1 # last_datapoint_index
            THEN DataPoint(start, as_i16(per_datapoint_entries_to_generate))
            ELSE DataPoint(start,
                           as_i16(as_i16(target)
                                  - as_i16(per_datapoint_entries_to_generate
                                           * last_datapoint_index)))]

\* The first fill of lines 163-181: every slot but the last gets the integer
\* quotient, the last gets the 16-bit difference of target and running sum.
even_first_fill(start, duration, target) ==
    LET per_datapoint_entries_to_generate == target \div duration
        last_datapoint_index == duration - 1
    IN  [k \in 1..duration |->
            IF k - 1 # last_datapoint_index
            THEN DataPoint(start + (k - 1), as_i16(per_datapoint_entries_to_generate))
            ELSE DataPoint(start + (k - 1),
                           as_i16(as_i16(target)
                                  - as_i16(per_datapoint_entries_to_generate
                                           * last_datapoint_index)))]

\* line 178 overflows the i16 subtraction
even_first_fill_overflows(duration, target) ==
    ~i16_fits(as_i16(target) - as_i16((target \div duration) * (duration - 1)))

EvenFirstFill ==
    /\ pc = "even"
    /\ IF duration_in_seconds = 0
       THEN /\ Finish(Panic(DivideByZero))
            /\ UNCHANGED <<datapoints, sum, iter>>
       ELSE IF overflow_checks
               /\ even_first_fill_overflows(duration_in_seconds, num_entries_to_generate)
       THEN /\ Finish(Panic(SubtractOverflow))
            /\ datapoints' = datapoints \o
                   SubSeq(even_first_fill(start_time, duration_in_seconds,
                                          num_entries_to_generate),
                          1, duration_in_seconds - 1)
            /\ UNCHANGED <<sum, iter>>
       ELSE /\ datapoints' = datapoints \o
                   even_first_fill(start_time, duration_in_seconds,
                                   num_entries_to_generate)
            /\ sum' = (num_entries_to_generate \div duration_in_seconds)
                          * (duration_in_seconds - 1)
            /\ iter' = 0
            /\ pc' = "even_shuffle"
            /\ UNCHANGED result
    /\ UNCHANGED <<env_vars, call_vars, clock_reads, sparse_vars, pick_vars>>

\* the guard of line 197: only a first slot holding exactly 1 is skipped
even_skips(first_slot_row_to_add) == first_slot_row_to_add = 1

\* One iteration of the loop of lines 186-203.
EvenShuffle ==
    /\ pc = "even_shuffle"
    /\ iter < num_shuffles(num_entries_to_generate)
    /\ IF pick_fails(duration_in_seconds)
       THEN /\ Finish(pick_failure(duration_in_seconds))
            /\ UNCHANGED <<datapoints, iter>>
       ELSE \E p \in pick_2_random_datapoint(duration_in_seconds) :
              LET first == p[1] + 1
                  second == p[2] + 1
                  first_slot_row_to_add == datapoints[first].rows_to_add
              IN  IF even_skips(first_slot_row_to_add)
                  THEN /\ iter' = iter + 1
                       /\ UNCHANGED <<datapoints, pc, result>>
                  ELSE IF first_slot_row_to_add <= 1
                  THEN /\ Finish(Panic(EmptyRange))
                       /\ UNCHANGED <<datapoints, iter>>
                  ELSE \E delta \in 1..(first_slot_row_to_add - 1) :
                         IF overflow_checks
                            /\ transfer_overflows(datapoints, first, second, delta)
                         THEN /\ Finish(Panic(AddOverflow))
                              /\ UNCHANGED <<datapoints, iter>>
                         ELSE /\ datapoints' = transfer(datapoints, first, second, delta)
                              /\ iter' = iter + 1
                              /\ UNCHANGED <<pc, result>>
    /\ UNCHANGED <<env_vars, call_vars, clock_reads, sum, sparse_vars, pick_vars>>

EvenReturn ==
    /\ pc = "even_shuffle"
    /\ iter >= num_shuffles(num_entries_to_generate)
    /\ UNCHANGED <<env_vars, call_vars, clock_reads, datapoints, sum, iter,
                   sparse_vars, pick_vars>>
    /\ ReturnOk

----------------------------------------------------------------------------
(* Early-fill distributor, lines 221-269 *)

\* the draw range of line 240: logical_floor..=logical_ceiling
early_fill_draws(target) == 1..logical_ceiling(target)

\* One iteration of the loop of lines 239-267.
EarlyFillStep ==
    /\ pc = "early_fill"
    /\ iter < duration_in_seconds
    /\ IF early_fill_draws(num_entries_to_generate) = {}
       THEN /\ Finish(Panic(EmptyRange))
            /\ UNCHANGED <<datapoints, sum, iter>>
       ELSE \E draw \in early_fill_draws(num_entries_to_generate) :
              LET over == sum + draw > num_entries_to_generate
                  rows_to_add == IF over THEN num_entries_to_generate - sum ELSE draw
                  new_sum == IF over THEN num_entries_to_generate ELSE sum + draw
              IN  /\ datapoints' = Append(datapoints,
                                          DataPoint(start_time + iter, as_i16(rows_to_add)))
                  /\ sum' = new_sum
                  /\ IF new_sum = num_entries_to_generate
                     THEN ReturnOk /\ UNCHANGED iter
                     ELSE iter' = iter + 1 /\ UNCHANGED <<pc, result>>
    /\ UNCHANGED <<env_vars, call_vars, clock_reads, sparse_vars, pick_vars>>

\* The loop ran out of seconds before the break of line 265.
EarlyFillReturn ==
    /\ pc = "early_fill"
    /\ iter >= duration_in_seconds
    /\ UNCHANGED <<env_vars, call_vars, clock_reads, datapoints, sum, iter,
                   sparse_vars, pick_vars>>
    /\ ReturnOk

----------------------------------------------------------------------------
(* Sparse-fill distributor, lines 271-464 *)

DEFAULT_SPARSE_FILL_ZONE_GENERATION_FACTOR == 3

\* the range of line 287
MinZones == 3
MaxZones == 6

\* lines 288-301: the ceiling for every zone but the last, the rest for the last
zone_first_fill(target, zones) ==
    LET zone_allocation_ceiling == target \div zones
    IN  [k \in 1..zones |->
            IF k = zones THEN target - zone_allocation_ceiling * (zones - 1)
            ELSE zone_allocation_ceiling]

SparseDrawZones ==
    /\ pc = "sparse_fill"
    /\ \E z \in MinZones..MaxZones :
         /\ num_of_zone' = z
         /\ zone_allocations' = zone_first_fill(num_entries_to_generate, z)
         /\ sum' = (num_entries_to_generate \div z) * (z - 1)
    /\ iter' = 0
    /\ pc' = "sparse_shuffle"
    /\ UNCHANGED <<env_vars, call_vars, clock_reads, result, datapoints,
                   data_zones, zone_cursor, data_points, pick_vars>>

\* the guard of line 308
zone_skips(upper_bound) == upper_bound < 2

\* One iteration of the loop of lines 304-315 (u32 zone totals).
SparseShuffle ==
    /\ pc = "sparse_shuffle"
    /\ iter < num_of_zone * 5
    /\ IF pick_fails(num_of_zone)
       THEN /\ Finish(pick_failure(num_of_zone))
            /\ UNCHANGED <<zone_allocations, iter>>
       ELSE \E p \in pick_2_random_datapoint(num_of_zone) :
              LET first == p[1] + 1
                  second == p[2] + 1
                  upper_bound == zone_allocations[first]
              IN  IF zone_skips(upper_bound)
                  THEN /\ iter' = iter + 1
                       /\ UNCHANGED <<zone_allocations, pc, result>>
                  ELSE \E delta \in 1..(upper_bound - 1) :
                         /\ zone_allocations' =
                                [zone_allocations EXCEPT ![first] = @ - delta,
                                                         ![second] = @ + delta]
                         /\ iter' = iter + 1
                         /\ UNCHANGED <<pc, result>>
    /\ UNCHANGED <<env_vars, call_vars, clock_reads, datapoints, sum, num_of_zone,
                   data_zones, zone_cursor, data_points, pick_vars>>

DataZone(s, e, n) == [start_time |-> s, end_time |-> e, num_rows_to_add |-> n]

\* mutant: line 371 divides the number of zones by the generation factor
zone_boundaries_divided(zones, generation_factor, start, duration) ==
    LET data_zones_len == zones \div generation_factor
        zone_span == duration \div data_zones_len
    IN  [k \in 1..data_zones_len |->
            LET zone_idx == k - 1
                zone_start == start + zone_span * zone_idx
            IN  IF zone_idx = data_zones_len - 1
                THEN DataZone(zone_start, start + duration, 0)
                ELSE DataZone(zone_start, zone_start + (zone_span - 1), 0)]

\* lines 372-394: generation_factor * zones candidate slots, each zone_span
\* seconds after the previous one, none allocated yet.
zone_boundaries(zones, generation_factor, start, duration) ==
    LET data_zones_len == generation_factor * zones
        zone_span == duration \div data_zones_len
    IN  [k \in 1..data_zones_len |->
            LET zone_idx == k - 1
                zone_start == start + zone_span * zone_idx
            IN  IF zone_idx = data_zones_len - 1
                THEN DataZone(zone_start, start + duration, 0)
                ELSE DataZone(zone_start, zone_start + (zone_span - 1), 0)]

\* The shuffle loop is over: generate_sparse_fill_zone_and_boundaries is
\* called and builds the candidate slots.
SparseBoundaries ==
    /\ pc = "sparse_shuffle"
    /\ iter >= num_of_zone * 5
    /\ data_zones' = zone_boundaries(Len(zone_allocations),
                                     DEFAULT_SPARSE_FILL_ZONE_GENERATION_FACTOR,
                                     start_time, duration_in_seconds)
    /\ zone_cursor' = 0
    /\ pc' = "sparse_place"
    /\ UNCHANGED <<env_vars, call_vars, clock_reads, result, datapoints, sum, iter,
                   num_of_zone, zone_allocations, data_points, pick_vars>>

\* mutant: the test of line 399 is left out, so the first slot drawn is taken
free_slots_unchecked(zones) == 1..Len(zones)

\* the candidate slots the redraw loop of lines 397-403 can stop at
free_slots(zones) == {k \in 1..Len(zones) : zones[k].num_rows_to_add = 0}

\* One iteration of the loop of lines 396-404: the redraws end at some slot
\* whose num_rows_to_add is still 0, which gets the zone total.
SparsePlace ==
    /\ pc = "sparse_place"
    /\ zone_cursor < Len(zone_allocations)
    /\ IF free_slots(data_zones) = {}
       THEN /\ Finish(Hang)
            /\ UNCHANGED <<data_zones, zone_cursor>>
       ELSE \E idx \in free_slots(data_zones) :
              /\ data_zones' = [data_zones EXCEPT ![idx].num_rows_to_add =
                                    zone_allocations[zone_cursor + 1]]
              /\ zone_cursor' = zone_cursor + 1
              /\ UNCHANGED <<pc, result>>
    /\ UNCHANGED <<env_vars, call_vars, clock_reads, datapoints, sum, iter,
                   num_of_zone, zone_allocations, data_points, pick_vars>>

\* generate_sparse_fill_zone_and_boundaries returns; the loop of line 354 starts.
SparsePlaced ==
    /\ pc = "sparse_place"
    /\ zone_cursor >= Len(zone_allocations)
    /\ zone_cursor' = 0
    /\ pc' = "sparse_emit"
    /\ UNCHANGED <<env_vars, call_vars, clock_reads, result, datapoints, sum, iter,
                   num_of_zone, zone_allocations, data_zones, data_points, pick_vars>>

\* mutant: the second at the stored end_time counts as part of the zone
zone_duration_inclusive(zone) == zone.end_time - zone.start_time + 1

\* line 428
zone_duration(zone) == zone.end_time - zone.start_time

\* num_rows_to_add / duration as u32: a negative duration casts to at least
\* 2^31, more than any total of the model, so the quotient is 0.
rows_per_second(zone) ==
    IF zone_duration(zone) < 0 THEN 0
    ELSE zone.num_rows_to_add \div zone_duration(zone)

\* mutant: the timestamps of line 446 are counted from the zone's end_time
zone_datapoints_first_fill_from_end(zone) ==
    LET duration == zone_duration(zone)
    IN  [k \in 1..duration |->
            DataPoint(zone.end_time + (k - 1),
                      as_i16(IF k - 1 = duration - 1
                             THEN zone.num_rows_to_add
                                  - rows_per_second(zone) * (duration - 1)
                             ELSE rows_per_second(zone)))]

\* lines 438-450: one DataPoint per second of the duration, the last one
\* taking what is left of the zone total.
zone_datapoints_first_fill(zone) ==
    LET duration == zone_duration(zone)
    IN  [k \in 1..duration |->
            DataPoint(zone.start_time + (k - 1),
                      as_i16(IF k - 1 = duration - 1
                             THEN zone.num_rows_to_add
                                  - rows_per_second(zone) * (duration - 1)
                             ELSE rows_per_second(zone)))]

\* line 355: a gap slot is passed over
SparseSkipGap ==
    /\ pc = "sparse_emit"
    /\ zone_cursor < Len(data_zones)
    /\ ~(data_zones[zone_cursor + 1].num_rows_to_add > 0)
    /\ zone_cursor' = zone_cursor + 1
    /\ UNCHANGED <<env_vars, call_vars, clock_reads, pc, result, datapoints, sum,
                   iter, num_of_zone, zone_allocations, data_zones, data_points,
                   pick_vars>>

\* generate_sparse_fill_zone_datapoints up to its first fill, lines 426-450
ZoneFirstFill ==
    /\ pc = "sparse_emit"
    /\ zone_cursor < Len(data_zones)
    /\ data_zones[zone_cursor + 1].num_rows_to_add > 0
    /\ LET zone == data_zones[zone_cursor + 1]
       IN  IF zone_duration(zone) = 0
           THEN /\ Finish(Panic(DivideByZero))
                /\ UNCHANGED <<data_points, sum, iter>>
           ELSE /\ data_points' = zone_datapoints_first_fill(zone)
                /\ sum' = IF zone_duration(zone) < 0 THEN 0 ELSE zone.num_rows_to_add
                /\ iter' = 0
                /\ pc' = "zone_shuffle"
                /\ UNCHANGED result
    /\ UNCHANGED <<env_vars, call_vars, clock_reads, datapoints, num_of_zone,
                   zone_allocations, data_zones, zone_cursor, pick_vars>>

\* the guard of line 455
zone_datapoint_skips(rows_available) == rows_available < 2

\* One iteration of the loop of lines 452-462.
ZoneShuffle ==
    /\ pc = "zone_shuffle"
    /\ iter < zone_duration(data_zones[zone_cursor + 1]) * 3
    /\ IF pick_fails(Len(data_points))
       THEN /\ Finish(pick_failure(Len(data_points)))
            /\ UNCHANGED <<data_points, iter>>
       ELSE \E p \in pick_2_random_datapoint(Len(data_points)) :
              LET idx_1 == p[1] + 1
                  idx_2 == p[2] + 1
                  rows_available == data_points[idx_1].rows_to_add
              IN  IF zone_datapoint_skips(rows_available)
                  THEN /\ iter' = iter + 1
                       /\ UNCHANGED <<data_points, pc, result>>
                  ELSE \E delta \in 1..(rows_available - 1) :
                         IF overflow_checks
                            /\ transfer_overflows(data_points, idx_1, idx_2, delta)
                         THEN /\ Finish(Panic(AddOverflow))
                              /\ UNCHANGED <<data_points, iter>>
                         ELSE /\ data_points' = transfer(data_points, idx_1, idx_2, delta)
                              /\ iter' = iter + 1
                              /\ UNCHANGED <<pc, result>>
    /\ UNCHANGED <<env_vars, call_vars, clock_reads, datapoints, sum, num_of_zone,
                   zone_allocations, data_zones, zone_cursor, pick_vars>>

\* generate_sparse_fill_zone_datapoints returns; line 357 appends its Vec.
ZoneAppend ==
    /\ pc = "zone_shuffle"
    /\ iter >= zone_duration(data_zones[zone_cursor + 1]) * 3
    /\ datapoints' = datapoints \o data_points
    /\ data_points' = <<>>
    /\ zone_cursor' = zone_cursor + 1
    /\ pc' = "sparse_emit"
    /\ UNCHANGED <<env_vars, call_vars, clock_reads, result, sum, iter, num_of_zone,
                   zone_allocations, data_zones, pick_vars>>

SparseReturn ==
    /\ pc = "sparse_emit"
    /\ zone_cursor >= Len(data_zones)
    /\ UNCHANGED <<env_vars, call_vars, clock_reads, datapoints, sum, iter,
                   sparse_vars, pick_vars>>
    /\ ReturnOk

----------------------------------------------------------------------------
(* Dispatcher, lines 112-154, and a direct call of generate_time_range *)

\* the instants the clock can show during a call
ClockStart == ValidTimestampInstant + 86400
ClockValues == ClockStart..(ClockStart + MaxClockSkew)

entry_pc(distributor) ==
    CASE distributor = "generate_datapoints_even" -> "even"
      [] distributor = "generate_datapoints_early_fill" -> "early_fill"
      [] distributor = "generate_datapoints_sparse_fill" -> "sparse_fill"

CallGenerateTimeRange ==
    /\ pc = "start"
    /\ api' = "generate_time_range"
    /\ \E now_1 \in ClockValues, now_2 \in ClockValues :
         /\ now_1 <= now_2
         /\ clock_reads' = <<now_1, now_2>>
         /\ Finish(generate_time_range(cfg, now_1, now_2))
    /\ UNCHANGED <<env_vars, callee, start_time, duration_in_seconds,
                   num_entries_to_generate, datapoints, sum, iter, sparse_vars,
                   pick_vars>>

\* generate_datapoints up to the call of a distributor (lines 113-152).
CallGenerateDatapoints ==
    /\ pc = "start"
    /\ api' = "generate_datapoints"
    /\ \E now_1 \in ClockValues, now_2 \in ClockValues :
         /\ now_1 <= now_2
         /\ clock_reads' = <<now_1, now_2>>
         /\ LET range == generate_time_range(cfg, now_1, now_2)
            IN  IF range.kind # "ok"
                THEN /\ Finish(range)
                     /\ UNCHANGED <<callee, start_time, duration_in_seconds,
                                    num_entries_to_generate>>
                ELSE IF \/ is_none(cfg.generation_duration)
                        \/ is_none(cfg.number_of_entries)
                        \/ is_none(cfg.distribution_by)
                THEN /\ Finish(Panic(UnwrapNone))
                     /\ UNCHANGED <<callee, start_time, duration_in_seconds,
                                    num_entries_to_generate>>
                ELSE LET duration == parse_time_duration(unwrap(cfg.generation_duration))
                         model == distribution_model(cfg)
                     IN  IF duration.kind = "err"
                         THEN /\ Finish(duration)
                              /\ UNCHANGED <<callee, start_time, duration_in_seconds,
                                             num_entries_to_generate>>
                         ELSE /\ start_time' = range.value[1]
                              /\ duration_in_seconds' = num_seconds(duration.value)
                              /\ num_entries_to_generate' = unwrap(cfg.number_of_entries)
                              /\ IF match_model(model) = "none"
                                 THEN /\ Finish(Err(unknown_model_error(model)))
                                      /\ UNCHANGED callee
                                 ELSE /\ callee' = match_model(model)
                                      /\ pc' = entry_pc(match_model(model))
                                      /\ UNCHANGED result
    /\ UNCHANGED <<env_vars, datapoints, sum, iter, sparse_vars, pick_vars>>

----------------------------------------------------------------------------
(* Initial states *)

NoConfig ==
    [number_of_entries |-> None, timestamp_format |-> None,
     use_now_as_timestamp |-> None, generation_duration |-> None,
     start_timestamp |-> None, distribution_by |-> None]

\* everything a call has not touched yet
Idle ==
    /\ result = NoResult
    /\ clock_reads = <<>>
    /\ callee = "none"
    /\ datapoints = <<>>
    /\ sum = 0
    /\ iter = 0
    /\ num_of_zone = 0
    /\ zone_allocations = <<>>
    /\ data_zones = <<>>
    /\ zone_cursor = 0
    /\ data_points = <<>>
    /\ slots_length = 0
    /\ first_slot = 0
    /\ second_slot = 0

NoArguments ==
    /\ start_time = 0
    /\ duration_in_seconds = 0
    /\ num_entries_to_generate = 0

\* the characters of the strings handed to parse_time_duration
Alphabet == {"0", "1", "3", "s", "m", "h", "d", "f"}
Strings == UNION {[1..k -> Alphabet] : k \in 0..MaxLen}

InitParse ==
    /\ input \in Strings
    /\ cfg = NoConfig
    /\ overflow_checks \in BOOLEAN
    /\ api = "none"
    /\ pc = "start"
    /\ NoArguments
    /\ Idle

CallParseTimeDuration ==
    /\ pc = "start"
    /\ api' = "parse_time_duration"
    /\ Finish(parse_time_duration(input))
    /\ UNCHANGED <<env_vars, clock_reads, callee, start_time, duration_in_seconds,
                   num_entries_to_generate, datapoints, sum, iter, sparse_vars,
                   pick_vars>>

NextParse == CallParseTimeDuration

SpecParse == InitParse /\ [][NextParse]_vars

CfgDurations ==
    {None, Some(<<"2", "s">>), Some(<<"1", "m">>), Some(<<"1", "x">>),
     Some(<<"m", "1">>)}
CfgModels ==
    {NameEven, <<"E", "V", "E", "N">>, NameEarlyFill,
     <<"S", "p", "a", "r", "s", "e", "_", "F", "i", "l", "l">>,
     <<"O", "d", "d">>, <<"e", "v", "e", "n", "l", "y">>}

\* A total of ShuffledEntries makes the even distributor shuffle once. The
\* sparse-fill distributor is given the totals up to MaxCfgEntries only: its
\* states multiply with the ways to split and place the total.
ShuffledEntries == 5
ConfigSpace ==
    {c \in [number_of_entries :
                {Some(n) : n \in (0..MaxCfgEntries) \cup {ShuffledEntries}},
            timestamp_format : {Some(ValidFormat), Some("invalid-simply")},
            use_now_as_timestamp : {None, Some(TRUE), Some(FALSE)},
            generation_duration : CfgDurations,
            start_timestamp :
                {None, Some(ValidTimestamp), Some("invalid-timestamp-value")},
            distribution_by : {Some(m) : m \in CfgModels}] :
        distribution_model(c) = NameSparseFill
            => unwrap(c.number_of_entries) <= MaxCfgEntries}

InitCfg ==
    /\ input = <<>>
    /\ cfg \in ConfigSpace
    /\ overflow_checks \in BOOLEAN
    /\ api = "none"
    /\ pc = "start"
    /\ NoArguments
    /\ Idle

\* the instant the directly called distributors start from
StartInstant == ValidTimestampInstant

\* target / duration pairs whose counts do not fit 16 bits
WideInputs == {<<40000, 1>>, <<65536, 2>>}

EvenInputs == (0..MaxEvenTarget) \X (1..MaxEvenDuration)

InitEvenOver(inputs) ==
    /\ input = <<>>
    /\ cfg = NoConfig
    /\ overflow_checks \in BOOLEAN
    /\ api = "generate_datapoints_even"
    /\ pc = "even"
    /\ start_time = StartInstant
    /\ \E p \in inputs :
         /\ num_entries_to_generate = p[1]
         /\ duration_in_seconds = p[2]
    /\ Idle

InitEven == InitEvenOver(EvenInputs)
InitEvenWide == InitEvenOver(EvenInputs \cup WideInputs)

EarlyInputs ==
    (((0..MaxEarlyTarget) \cup (100..(100 + MaxEarlyExtra)))
        \X ((0..MaxEarlyDuration) \cup (100..(100 + MaxEarlyExtra))))
    \cup ({200, 250, 299} \X (0..MaxEarlyDuration))

InitEarly ==
    /\ input = <<>>
    /\ cfg = NoConfig
    /\ overflow_checks \in BOOLEAN
    /\ api = "generate_datapoints_early_fill"
    /\ pc = "early_fill"
    /\ start_time = StartInstant
    /\ \E p \in EarlyInputs :
         /\ num_entries_to_generate = p[1]
         /\ duration_in_seconds = p[2]
    /\ Idle

SparseDurations == {1, 5, 9, 18, 27, 54}

InitSparse ==
    /\ input = <<>>
    /\ cfg = NoConfig
    /\ overflow_checks \in BOOLEAN
    /\ api = "generate_datapoints_sparse_fill"
    /\ pc = "sparse_fill"
    /\ start_time = StartInstant
    /\ num_entries_to_generate \in 0..MaxSparseTarget
    /\ duration_in_seconds \in SparseDurations
    /\ Idle

----------------------------------------------------------------------------
(* Specifications *)

NextEven == EvenFirstFill \/ EvenShuffle \/ EvenReturn

NextEarly == EarlyFillStep \/ EarlyFillReturn

NextSparse ==
    \/ SparseDrawZones
    \/ SparseShuffle
    \/ SparseBoundaries
    \/ SparsePlace
    \/ SparsePlaced
    \/ SparseSkipGap
    \/ ZoneFirstFill
    \/ ZoneShuffle
    \/ ZoneAppend
    \/ SparseReturn

NextCfg ==
    \/ CallGenerateTimeRange
    \/ CallGenerateDatapoints
    \/ NextEven
    \/ NextEarly
    \/ NextSparse

\* each distributor called directly, over every input of its set
SpecEven == InitEven /\ [][NextEven]_vars
SpecEvenWide == InitEvenWide /\ [][NextEven]_vars
SpecEarly == InitEarly /\ [][NextEarly]_vars
SpecSparse == InitSparse /\ [][NextSparse]_vars

\* a caller with a Config calls generate_time_range or generate_datapoints
SpecCfg == InitCfg /\ [][NextCfg]_vars

----------------------------------------------------------------------------
(* Helpers of the properties *)

RECURSIVE SumCounts(_)
SumCounts(points) ==
    IF points = <<>> THEN 0
    ELSE points[1].rows_to_add + SumCounts(Tail(points))

\* part occurs in whole as a run of consecutive elements
Contains(whole, part) ==
    \E k \in 0..(Len(whole) - Len(part)) :
        \A j \in 1..Len(part) : whole[k + j] = part[j]

\* a and b are the same string up to the case of ASCII letters
SameIgnoringCase(a, b) ==
    /\ Len(a) = Len(b)
    /\ \A k \in 1..Len(a) :
         \/ a[k] = b[k]
         \/ \E l \in 1..Len(UpperCase) :
              {a[k], b[k]} = {UpperCase[l], LowerCase[l]}

Returned == pc = "done"

----------------------------------------------------------------------------
(* C1..C5: conservation and counts of the distributors *)

\* C1: for every target >= 0 and every duration_in_seconds > 0 the even
\* distributor completes (it neither panics nor spins), and what it returns
\* has exactly duration_in_seconds DataPoints whose counts sum to the target.
C1_EvenCompletesAndConserves ==
    (api = "generate_datapoints_even" /\ duration_in_seconds > 0) =>
        /\ result.kind \in {"none", "ok"}
        /\ result.kind = "ok" =>
              /\ Len(datapoints) = duration_in_seconds
              /\ SumCounts(datapoints) = num_entries_to_generate

\* C2: for every target and every duration_in_seconds > 0, when the early-fill
\* distributor returns, the counts of the DataPoints it emitted sum to the
\* target exactly.
C2_EarlyFillConserves ==
    (api = "generate_datapoints_early_fill" /\ duration_in_seconds > 0
        /\ Returned /\ result.kind = "ok") =>
        SumCounts(datapoints) = num_entries_to_generate

\* C3: for every target and every duration_in_seconds > 0 the sparse-fill
\* distributor completes with a zone count in 3..6, and the counts of all the
\* DataPoints it emits sum to the target exactly.
C3_SparseCompletesAndConserves ==
    (api = "generate_datapoints_sparse_fill" /\ duration_in_seconds > 0) =>
        /\ result.kind \in {"none", "ok"}
        /\ result.kind = "ok" =>
              /\ num_of_zone \in 3..6
              /\ SumCounts(datapoints) = num_entries_to_generate

\* C4: after the base fill and after every perturbation iteration, every
\* DataPoint count (of the output and of the zone being emitted) and every
\* zone total is >= 0.
C4_CountsNeverNegative ==
    /\ \A k \in 1..Len(datapoints) : datapoints[k].rows_to_add >= 0
    /\ \A k \in 1..Len(data_points) : data_points[k].rows_to_add >= 0
    /\ \A k \in 1..Len(zone_allocations) : zone_allocations[k] >= 0
    /\ \A k \in 1..Len(data_zones) : data_zones[k].num_rows_to_add >= 0

\* C5: every count a distributor stores equals the intended value and lies in
\* 0..32767: the base fill of the even distributor stores the integer quotient
\* in every slot but the last and the remainder in the last, and no 16-bit
\* conversion, addition or subtraction overflows.
C5_CountsAreTheIntendedValues ==
    /\ \A k \in 1..Len(datapoints) : datapoints[k].rows_to_add \in 0..32767
    /\ result.msg \notin {SubtractOverflow, AddOverflow}
    /\ (pc = "even_shuffle" /\ iter = 0) =>
          \A k \in 1..Len(datapoints) :
              datapoints[k].rows_to_add =
                  IF k < Len(datapoints)
                  THEN num_entries_to_generate \div duration_in_seconds
                  ELSE num_entries_to_generate
                       - (num_entries_to_generate \div duration_in_seconds)
                         * (duration_in_seconds - 1)

----------------------------------------------------------------------------
(* C6..C8, C10: the dispatcher and the time range resolver *)

\* the start timestamp is consulted and does not parse with the format
StartUnparsable ==
    /\ cfg.use_now_as_timestamp = Some(FALSE)
    /\ ~is_none(cfg.start_timestamp)
    /\ ~is_none(cfg.timestamp_format)
    /\ DateTime_parse_from_str(unwrap(cfg.start_timestamp),
                               unwrap(cfg.timestamp_format)).kind = "err"

\* the start of the range resolves: the clock is used, or the timestamp parses
StartResolves ==
    \/ cfg.use_now_as_timestamp # Some(FALSE)
    \/ /\ ~is_none(cfg.start_timestamp)
       /\ ~is_none(cfg.timestamp_format)
       /\ DateTime_parse_from_str(unwrap(cfg.start_timestamp),
                                  unwrap(cfg.timestamp_format)).kind = "ok"

DurationUnparsable ==
    /\ ~is_none(cfg.generation_duration)
    /\ parse_time_duration(unwrap(cfg.generation_duration)).kind = "err"

DurationParses ==
    /\ ~is_none(cfg.generation_duration)
    /\ parse_time_duration(unwrap(cfg.generation_duration)).kind = "ok"

\* the duration of the Config parses, and to zero seconds
ZeroDurationGiven ==
    /\ ~is_none(cfg.generation_duration)
    /\ parse_time_duration(unwrap(cfg.generation_duration)).kind = "ok"
    /\ parse_time_duration(unwrap(cfg.generation_duration)).value = 0

\* C6: generate_datapoints checks duration_in_seconds > 0 before it invokes a
\* distributor: with a duration that parses to zero its caller gets an error
\* value, never a crash on a division by zero.
C6_ZeroDurationIsAnError ==
    (api = "generate_datapoints" /\ Returned /\ StartResolves /\ ZeroDurationGiven) =>
        result.kind = "err"

GivenModel == unwrap(cfg.distribution_by)

\* C7: once the time range and the duration of the Config have resolved, the
\* dispatcher routes "even", "early_fill" and "sparse_fill", in any letter
\* case, to the matching distributor; for every other name it returns an error
\* whose message contains the lower-cased name, runs no distributor and
\* returns no DataPoints.
C7_DispatchByLowercasedName ==
    (api = "generate_datapoints" /\ StartResolves /\ DurationParses) =>
        /\ SameIgnoringCase(GivenModel, NameEven) =>
              callee = "generate_datapoints_even"
        /\ SameIgnoringCase(GivenModel, NameEarlyFill) =>
              callee = "generate_datapoints_early_fill"
        /\ SameIgnoringCase(GivenModel, NameSparseFill) =>
              callee = "generate_datapoints_sparse_fill"
        /\ (\A name \in {NameEven, NameEarlyFill, NameSparseFill} :
                ~SameIgnoringCase(GivenModel, name)) =>
              /\ Returned
              /\ result.kind = "err"
              /\ Contains(result.msg, to_lowercase(GivenModel))
              /\ callee = "none"
              /\ datapoints = <<>>

\* an unknown name given with capitals is refused under its lower-cased form
C7_Witness ==
    /\ api = "generate_datapoints"
    /\ Returned
    /\ GivenModel = <<"O", "d", "d">>
    /\ result.kind = "err"
    /\ Contains(result.msg, <<"o", "d", "d">>)
    /\ callee = "none"

\* C8: with use_now_as_timestamp false and a start_timestamp that does not
\* parse with timestamp_format, generate_time_range returns an error whose
\* message contains the timestamp, the format and the parser's reason;
\* generate_datapoints hands that error, and a duration parse error, to its
\* caller, having run no distributor and produced no DataPoint.
C8_ParseErrorsAreReturned ==
    /\ (api \in {"generate_time_range", "generate_datapoints"}
          /\ Returned /\ StartUnparsable) =>
          /\ result.kind = "err"
          /\ Contains(result.msg, <<unwrap(cfg.start_timestamp)>>)
          /\ Contains(result.msg, <<unwrap(cfg.timestamp_format)>>)
          /\ Contains(result.msg, <<ChronoInvalid>>)
          /\ callee = "none"
          /\ datapoints = <<>>
    /\ (api = "generate_datapoints" /\ StartResolves /\ DurationUnparsable) =>
          /\ Returned
          /\ result.kind = "err"
          /\ result.msg = ParseDurationFailure
          /\ callee = "none"
          /\ datapoints = <<>>

C8_Witness ==
    /\ api = "generate_datapoints"
    /\ Returned
    /\ StartUnparsable
    /\ unwrap(cfg.start_timestamp) = "invalid-timestamp-value"
    /\ result.kind = "err"
    /\ Contains(result.msg, <<"invalid-timestamp-value">>)

\* the seconds the duration strings of the Configs stand for
ExpectedSeconds(duration) ==
    CASE duration = <<"2", "s">> -> 2
      [] duration = <<"1", "m">> -> 60
      [] duration = <<"1", "x">> -> 0

\* C10: with a generation_duration that parses, generate_time_range returns
\* (start, end) with end = start + duration; start is the parsed
\* start_timestamp when use_now_as_timestamp is false and the instant of the
\* first clock read when it is true or unset, in which case an unparsable
\* start_timestamp causes no error.
C10_EndIsStartPlusDuration ==
    (api = "generate_time_range" /\ Returned /\ DurationParses) =>
        LET seconds == ExpectedSeconds(unwrap(cfg.generation_duration))
        IN  /\ (cfg.use_now_as_timestamp = Some(FALSE)
                  /\ cfg.start_timestamp = Some(ValidTimestamp)
                  /\ cfg.timestamp_format = Some(ValidFormat)) =>
                  /\ result.kind = "ok"
                  /\ result.value = <<ValidTimestampInstant,
                                      ValidTimestampInstant + seconds>>
            /\ cfg.use_now_as_timestamp \in {None, Some(TRUE)} =>
                  /\ result.kind = "ok"
                  /\ result.value = <<clock_reads[1], clock_reads[1] + seconds>>

\* the clock moved between the two reads, the start_timestamp is unparsable
\* and unset use_now_as_timestamp still gives start = now, end = now + 1m
C10_Witness ==
    /\ api = "generate_time_range"
    /\ Returned
    /\ cfg.use_now_as_timestamp = None
    /\ cfg.start_timestamp = Some("invalid-timestamp-value")
    /\ cfg.generation_duration = Some(<<"1", "m">>)
    /\ clock_reads[2] > clock_reads[1]
    /\ result.kind = "ok"
    /\ result.value[2] = result.value[1] + 60

----------------------------------------------------------------------------
(* C9: the duration parser *)

\* the characters of s before its first non-digit, and the rest
DigitPrefix(s) ==
    CHOOSE pre \in {SubSeq(s, 1, k) : k \in 0..Len(s)} :
        /\ \A j \in 1..Len(pre) : pre[j] \in {"0", "1", "2", "3", "4", "5", "6", "7", "8", "9"}
        /\ Len(pre) < Len(s) =>
              s[Len(pre) + 1] \notin {"0", "1", "2", "3", "4", "5", "6", "7", "8", "9"}
Remainder(s) == SubSeq(s, Len(DigitPrefix(s)) + 1, Len(s))

\* the number a digit string writes: digit k from the right counts 10^(k-1)
TenTo(k) == IF k = 0 THEN 1 ELSE IF k = 1 THEN 10 ELSE IF k = 2 THEN 100
            ELSE IF k = 3 THEN 1000 ELSE IF k = 4 THEN 10000 ELSE 100000
RECURSIVE PlaceSum(_, _)
PlaceSum(digits, k) ==
    IF k > Len(digits) THEN 0
    ELSE DigitValue[digits[Len(digits) + 1 - k]] * TenTo(k - 1) + PlaceSum(digits, k + 1)

\* C9: parse_time_duration splits at the first non-digit: no non-digit, or no
\* digits before it, is a parse error; a remainder of exactly "s", "m", "h" or
\* "d" gives n seconds, minutes, hours or days; any other remainder gives a
\* zero duration without error.
C9_ParseTimeDuration ==
    (api = "parse_time_duration" /\ Returned) =>
        LET n == PlaceSum(DigitPrefix(input), 1)
            rest == Remainder(input)
        IN  IF rest = <<>> \/ DigitPrefix(input) = <<>>
            THEN result.kind = "err" /\ result.msg = ParseDurationFailure
            ELSE /\ result.kind = "ok"
                 /\ result.value =
                      CASE rest = <<"s">> -> n
                        [] rest = <<"m">> -> 60 * n
                        [] rest = <<"h">> -> 60 * 60 * n
                        [] rest = <<"d">> -> 24 * 60 * 60 * n
                        [] OTHER -> 0

\* "10m" is ten minutes
C9_Witness ==
    /\ api = "parse_time_duration"
    /\ Returned
    /\ input = <<"1", "0", "m">>
    /\ result.kind = "ok"
    /\ result.value = 600

----------------------------------------------------------------------------
(* C11: the time range without a generation_duration *)

\* C11: when no generation_duration is given, generate_time_range returns
\* end = start for every setting of use_now_as_timestamp (true, false or
\* unset), also when the clock advances between the two reads of the current
\* instant.
C11_EndIsStartWithoutDuration ==
    (api = "generate_time_range" /\ Returned /\ result.kind = "ok"
        /\ is_none(cfg.generation_duration)) =>
        result.value[2] = result.value[1]

----------------------------------------------------------------------------
(* pick_2_random_datapoint, lines 207-219, one draw at a time *)

InitPick ==
    /\ input = <<>>
    /\ cfg = NoConfig
    /\ overflow_checks \in BOOLEAN
    /\ api = "pick_2_random_datapoint"
    /\ pc = "pick_draw"
    /\ NoArguments
    /\ result = NoResult
    /\ clock_reads = <<>>
    /\ callee = "none"
    /\ datapoints = <<>>
    /\ sum = 0
    /\ iter = 0
    /\ num_of_zone = 0
    /\ zone_allocations = <<>>
    /\ data_zones = <<>>
    /\ zone_cursor = 0
    /\ data_points = <<>>
    /\ slots_length \in 0..MaxPickBound
    /\ first_slot = 0
    /\ second_slot = 0

pick_frame == <<env_vars, call_vars, clock_reads, datapoints, sum, iter,
                sparse_vars, slots_length>>

\* lines 209-210: the two draws before the loop; random_range panics on 0..0
PickDraw ==
    /\ pc = "pick_draw"
    /\ IF slots_length <= 0
       THEN /\ Finish(Panic(EmptyRange))
            /\ UNCHANGED <<first_slot, second_slot>>
       ELSE /\ first_slot' \in 0..(slots_length - 1)
            /\ second_slot' \in 0..(slots_length - 1)
            /\ pc' = "pick_loop"
            /\ UNCHANGED result
    /\ UNCHANGED pick_frame

\* line 216: second_slot equals first_slot, so it is drawn again
PickRedraw ==
    /\ pc = "pick_loop"
    /\ <<first_slot, second_slot>> \notin pick_2_random_datapoint(slots_length)
    /\ second_slot' \in 0..(slots_length - 1)
    /\ UNCHANGED <<pick_frame, pc, result, first_slot>>

\* lines 213-215 and 218: the loop breaks and the pair is returned
PickReturn ==
    /\ pc = "pick_loop"
    /\ <<first_slot, second_slot>> \in pick_2_random_datapoint(slots_length)
    /\ Finish(Ok(<<first_slot, second_slot>>))
    /\ UNCHANGED <<pick_frame, first_slot, second_slot>>

NextPick == PickDraw \/ PickRedraw \/ PickReturn

\* Fair draws: a redraw that can come out different from first_slot
\* eventually does (a redraw of the same value leaves the state as it is).
SpecPick == InitPick /\ [][NextPick]_vars /\ WF_vars(NextPick)

----------------------------------------------------------------------------
(* C12: the slot-pair picker *)

\* C12: for any bound >= 2, pick_2_random_datapoint(bound) terminates under
\* fair random draws and returns two indices that are distinct and both in
\* [0, bound).
C12_PickerTerminatesWithDistinctPair ==
    /\ [](api = "pick_2_random_datapoint" /\ Returned /\ slots_length >= 2 =>
            /\ result.kind = "ok"
            /\ result.value[1] # result.value[2]
            /\ result.value[1] \in 0..(slots_length - 1)
            /\ result.value[2] \in 0..(slots_length - 1))
    /\ (api = "pick_2_random_datapoint" /\ slots_length >= 2) ~> Returned

\* a call with the smallest bound returns the pair (1, 0)
C12_Witness ==
    /\ api = "pick_2_random_datapoint"
    /\ Returned
    /\ slots_length = 2
    /\ result = Ok(<<1, 0>>)

----------------------------------------------------------------------------
(* C13, C14: the candidate slots of generate_sparse_fill_zone_and_boundaries *)

\* the seconds of the window the distributor was asked to fill
Window == start_time..(start_time + duration_in_seconds - 1)
\* a candidate slot read as the inclusive span [start_time, end_time]
Span(zone) == zone.start_time..zone.end_time
SlotsBuilt == api = "generate_datapoints_sparse_fill" /\ data_zones # <<>>

\* C13: the candidate slots built by generate_sparse_fill_zone_and_boundaries,
\* each read as the inclusive span [start_time, end_time], partition the
\* window of duration_in_seconds seconds starting at start_time: every second
\* of the window lies in exactly one candidate slot and no slot extends
\* outside the window (the last slot taking the rounding remainder).
C13_SlotsPartitionTheWindow ==
    SlotsBuilt =>
        /\ \A t \in Window :
             Cardinality({k \in 1..Len(data_zones) : t \in Span(data_zones[k])}) = 1
        /\ \A k \in 1..Len(data_zones) : Span(data_zones[k]) \subseteq Window

\* generate_sparse_fill_zone_and_boundaries has returned its Vec<DataZone>
SlotsPlaced ==
    /\ api = "generate_datapoints_sparse_fill"
    /\ pc \in {"sparse_emit", "zone_shuffle"}

RECURSIVE SumZones(_)
SumZones(zones) ==
    IF zones = <<>> THEN 0 ELSE zones[1] + SumZones(Tail(zones))

RECURSIVE SumAllocated(_)
SumAllocated(slots) ==
    IF slots = <<>> THEN 0
    ELSE slots[1].num_rows_to_add + SumAllocated(Tail(slots))

\* C14: generate_sparse_fill_zone_and_boundaries returns exactly
\* generation_factor x len(zone list) candidate slots; their allocated counts
\* sum to the sum of the zone list; each positive zone total sits, unchanged,
\* in a candidate slot of its own (as many slots hold a value v > 0 as zones
\* have the total v) and every other slot keeps allocation 0.
C14_PlacementKeepsZoneTotals ==
    SlotsPlaced =>
        /\ Len(data_zones) =
               DEFAULT_SPARSE_FILL_ZONE_GENERATION_FACTOR * Len(zone_allocations)
        /\ SumAllocated(data_zones) = SumZones(zone_allocations)
        /\ \A v \in 1..num_entries_to_generate :
             Cardinality({k \in 1..Len(data_zones) :
                              data_zones[k].num_rows_to_add = v})
               = Cardinality({i \in 1..Len(zone_allocations) :
                                  zone_allocations[i] = v})
        /\ \A k \in 1..Len(data_zones) :
             data_zones[k].num_rows_to_add \in 0..num_entries_to_generate

\* two zones with the same positive total were placed in two different slots
C14_Witness ==
    /\ SlotsPlaced
    /\ zone_cursor = 0
    /\ Cardinality({i \in 1..Len(zone_allocations) : zone_allocations[i] = 1}) = 2
    /\ Cardinality({k \in 1..Len(data_zones) :
                        data_zones[k].num_rows_to_add = 1}) = 2

----------------------------------------------------------------------------
(* C15: the timestamps of the even and the early-fill distributor *)

\* either distributor, called directly
SpecEvenEarly == (InitEven \/ InitEarly) /\ [][NextEven \/ NextEarly]_vars

\* the sum of the first k counts
RunningSum(points, k) == SumCounts(SubSeq(points, 1, k))

\* C15: in the output of the even and of the early-fill distributor the i-th
\* DataPoint (0-based) has timestamp start + i seconds; the early-fill output
\* has at most duration_in_seconds DataPoints and none after the one at which
\* the running sum reaches the target.
C15_TimestampsAdvanceBySecond ==
    /\ api \in {"generate_datapoints_even", "generate_datapoints_early_fill"} =>
         \A i \in 1..Len(datapoints) :
             datapoints[i].timestamp = start_time + (i - 1)
    /\ api = "generate_datapoints_early_fill" =>
         /\ Len(datapoints) <= duration_in_seconds
         /\ \A k \in 1..(Len(datapoints) - 1) :
                RunningSum(datapoints, k) < num_entries_to_generate

\* the early-fill distributor reached its target of 100 one second before
\* the end of the window and returned the 100 DataPoints emitted so far
C15_Witness ==
    /\ api = "generate_datapoints_early_fill"
    /\ Returned
    /\ result.kind = "ok"
    /\ num_entries_to_generate = 100
    /\ Len(datapoints) = 100
    /\ duration_in_seconds > Len(datapoints)
    /\ datapoints[100].timestamp = start_time + 99

----------------------------------------------------------------------------
(* Configuration back-fill, src/src/config.rs lines 67-235 *)

\* A HashMap<String, String> is the set of its <<key, value>> entries.
HashMap_new == {}
map_keys(m) == {e[1] : e \in m}

ConfigExporter(n, v, e, f) ==
    [name |-> n, verbose |-> v, enabled |-> e, fields |-> f]

\* ConfigExporter::back_fill, lines 146-190
ConfigExporter_back_fill(self, from) ==
    LET name == IF is_none(self.name) THEN from.name ELSE self.name
        verbose == IF is_none(self.verbose)
                   THEN IF is_none(from.verbose) THEN Some(FALSE) ELSE from.verbose
                   ELSE self.verbose
        enabled == IF is_none(self.enabled)
                   THEN IF is_none(from.enabled) THEN Some(FALSE) ELSE from.enabled
                   ELSE self.enabled
        fields == IF is_none(self.fields) THEN from.fields
                  ELSE IF is_none(from.fields) THEN self.fields
                  ELSE Some(unwrap(self.fields) \cup
                            {e \in unwrap(from.fields) :
                                 e[1] \notin map_keys(unwrap(self.fields))})
    IN  ConfigExporter(name, verbose, enabled, fields)

\* lines 110-120: the custom exporters get their unset components filled
fill_unset_components(e) ==
    ConfigExporter(e.name,
                   IF is_none(e.verbose) THEN Some(FALSE) ELSE e.verbose,
                   IF is_none(e.enabled) THEN Some(FALSE) ELSE e.enabled,
                   IF is_none(e.fields) THEN Some(HashMap_new) ELSE e.fields)

\* the Option fields of lines 69-86
TopLevelFields ==
    {"number_of_entries", "timestamp_format", "use_now_as_timestamp",
     "generation_duration", "start_timestamp", "distribution_by"}

back_fill_field(self, from, f) == IF is_none(self[f]) THEN from[f] ELSE self[f]

\* lines 88-139: the exporter list after the merge, or the panic of an unwrap
back_fill_exporters(self, from) ==
    IF is_none(self.exporters)
    THEN IF is_none(from.exporters) THEN Panic(UnwrapNone)
         ELSE LET defaults == unwrap(from.exporters)
              IN  Ok([i \in 1..Len(defaults) |->
                         ConfigExporter_back_fill(
                             ConfigExporter(None, Some(FALSE), Some(FALSE),
                                            Some(HashMap_new)),
                             defaults[i])])
    ELSE LET self_exporters == unwrap(self.exporters)
         IN  IF \E i \in 1..Len(self_exporters) : is_none(self_exporters[i].name)
             THEN Panic(UnwrapNone)
             ELSE IF is_none(from.exporters) THEN Panic(UnwrapNone)
             ELSE LET defaults == unwrap(from.exporters)
                      types_in_string ==
                          {unwrap(self_exporters[i].name) :
                               i \in 1..Len(self_exporters)}
                      missing(e) == unwrap(e.name) \notin types_in_string
                      added == SelectSeq(defaults, missing)
                  IN  IF \E i \in 1..Len(defaults) : is_none(defaults[i].name)
                      THEN Panic(UnwrapNone)
                      ELSE Ok([i \in 1..Len(self_exporters) |->
                                  fill_unset_components(self_exporters[i])]
                              \o [i \in 1..Len(added) |->
                                     ConfigExporter_back_fill(
                                         ConfigExporter(None, None, None,
                                                        Some(HashMap_new)),
                                         added[i])])

\* Config::back_fill, lines 67-144: self after the call, or the panic
Config_back_fill(self, from) ==
    LET exporters == back_fill_exporters(self, from)
    IN  IF exporters.kind # "ok" THEN exporters
        ELSE Ok([f \in TopLevelFields \cup {"exporters"} |->
                    IF f = "exporters" THEN Some(exporters.value)
                    ELSE back_fill_field(self, from, f)])

\* the top-level values of config/default/config.toml, as test_load_config
\* finds them
DefaultTopLevel ==
    [number_of_entries |-> Some(1000), timestamp_format |-> Some(ValidFormat),
     use_now_as_timestamp |-> Some(TRUE), generation_duration |-> Some(<<"1", "m">>),
     start_timestamp |-> Some(ValidTimestamp), distribution_by |-> Some(NameEven)]

CustomTopLevel ==
    [number_of_entries : {None, Some(1)},
     timestamp_format : {None, Some("invalid-simply")},
     use_now_as_timestamp : {None, Some(FALSE)},
     generation_duration : {None, Some(<<"2", "s">>)},
     start_timestamp : {None, Some("invalid-timestamp-value")},
     distribution_by : {None, Some(NameEarlyFill)}]

\* an exporter section with nothing but its name, with enabled only, or with
\* every component
ExporterSections(names, value) ==
    {ConfigExporter(Some(n), None, None, None) : n \in names}
    \cup {ConfigExporter(Some(n), None, Some(TRUE), None) : n \in names}
    \cup {ConfigExporter(Some(n), Some(TRUE), Some(TRUE),
                         Some({<<"path", value>>})) : n \in names}

CustomExporters == ExporterSections({"file", "stdout"}, "./generated/")
DefaultExporters == ExporterSections({"file", "clickhouse"}, "./default/")

ExporterLists(sections) == UNION {[1..k -> sections] : k \in 0..MaxExporters}

with_exporters(top, exporters) ==
    [f \in TopLevelFields \cup {"exporters"} |->
        IF f = "exporters" THEN exporters ELSE top[f]]

\* cfg is the custom Config and input the default Config that load_config
\* has deserialised (lines 226-231).
InitLoad ==
    /\ \/ /\ \E top \in CustomTopLevel :
               cfg = with_exporters(top, Some(<<>>))
          /\ \E top \in {DefaultTopLevel, NoConfig} :
               input = with_exporters(top, Some(<<>>))
       \/ /\ \E exporters \in {None} \cup {Some(l) : l \in ExporterLists(CustomExporters)} :
               cfg = with_exporters(NoConfig, exporters)
          /\ \E exporters \in {None} \cup {Some(l) : l \in ExporterLists(DefaultExporters)} :
               input = with_exporters(DefaultTopLevel, exporters)
    /\ overflow_checks \in BOOLEAN
    /\ api = "none"
    /\ pc = "start"
    /\ NoArguments
    /\ Idle

\* load_config from line 233 on: config.back_fill(&backfill_config); Ok(config)
CallLoadConfig ==
    /\ pc = "start"
    /\ api' = "load_config"
    /\ Finish(Config_back_fill(cfg, input))
    /\ UNCHANGED <<env_vars, clock_reads, callee, start_time, duration_in_seconds,
                   num_entries_to_generate, datapoints, sum, iter, sparse_vars,
                   pick_vars>>

NextLoad == CallLoadConfig

SpecLoad == InitLoad /\ [][NextLoad]_vars

----------------------------------------------------------------------------
(* C16: back-fill never overwrites the custom configuration *)

Loaded == api = "load_config" /\ Returned

\* a component that is set stays; one that is not set gets the fallback
KeptOr(component, fallback) == IF is_none(component) THEN fallback ELSE component

\* C16: Config::back_fill never overwrites a value set in the custom config.
\* With an exporter list in the default config: each top-level field keeps
\* the custom value when it is set and otherwise takes the default's value;
\* the resulting exporter list is the custom exporters in their order (set
\* components unchanged) followed by every default exporter whose name does
\* not occur among the custom ones, with the default's components; and every
\* exporter in the result has verbose, enabled and fields set.
C16_BackFillKeepsCustomValues ==
    (Loaded /\ ~is_none(input.exporters)) =>
        /\ result.kind = "ok"
        /\ \A f \in TopLevelFields :
             result.value[f] = KeptOr(cfg[f], input[f])
        /\ LET custom == IF is_none(cfg.exporters) THEN <<>> ELSE unwrap(cfg.exporters)
               custom_names == {unwrap(custom[i].name) : i \in 1..Len(custom)}
               absent(e) == unwrap(e.name) \notin custom_names
               kept == SelectSeq(unwrap(input.exporters), absent)
               out == unwrap(result.value.exporters)
           IN  /\ Len(out) = Len(custom) + Len(kept)
               /\ \A i \in 1..Len(custom) :
                    /\ out[i].name = custom[i].name
                    /\ out[i].verbose = KeptOr(custom[i].verbose, out[i].verbose)
                    /\ out[i].enabled = KeptOr(custom[i].enabled, out[i].enabled)
                    /\ out[i].fields = KeptOr(custom[i].fields, out[i].fields)
               /\ \A j \in 1..Len(kept) :
                    LET e == out[Len(custom) + j]
                    IN  /\ e.name = kept[j].name
                        /\ e.verbose = KeptOr(kept[j].verbose, Some(FALSE))
                        /\ e.enabled = KeptOr(kept[j].enabled, Some(FALSE))
                        /\ e.fields = KeptOr(kept[j].fields, Some(HashMap_new))
               /\ \A i \in 1..Len(out) :
                    /\ ~is_none(out[i].verbose)
                    /\ ~is_none(out[i].enabled)
                    /\ ~is_none(out[i].fields)

----------------------------------------------------------------------------
(* C17: the draw range of the early-fill distributor *)

\* ceil(target x 0.01), raised to 1 when it computes to 0
RaisedCeiling(target) ==
    LET ceiling == (target + 99) \div 100
    IN  IF ceiling = 0 THEN 1 ELSE ceiling

\* C17: for every target the early-fill distributor draws each per-slot
\* count from [1, ceil(target x 0.01)], the ceiling raised to 1 when it
\* computes to 0, so the draw range is never empty and no draw fails; every
\* emitted count is at least 1 and at most that ceiling, and a draw beyond
\* the remaining budget is cut to it, so the counts never sum to more than
\* the target.
C17_EarlyFillDrawsFromRaisedCeiling ==
    api = "generate_datapoints_early_fill" =>
        /\ result.kind # "panic"
        /\ \A i \in 1..Len(datapoints) :
             datapoints[i].rows_to_add \in 1..RaisedCeiling(num_entries_to_generate)
        /\ SumCounts(datapoints) <= num_entries_to_generate

----------------------------------------------------------------------------
(* C18: the perturbation pass of the even distributor *)

\* round(target x 0.2): target / 5 to the nearest integer
RoundedFifth(target) == (target + 2) \div 5

\* the step moves delta from slot first to slot second and nothing else
MovesDelta(first, second, delta) ==
    /\ datapoints'[first].rows_to_add = datapoints[first].rows_to_add - delta
    /\ datapoints'[second].rows_to_add = datapoints[second].rows_to_add + delta
    /\ \A k \in (1..Len(datapoints)) \ {first, second} :
         datapoints'[k].rows_to_add = datapoints[k].rows_to_add

\* C18: the even distributor's perturbation pass runs round(target x 0.2)
\* iterations; each iteration picks two distinct slots and either changes
\* nothing or draws a delta in [1, first_slot_count), subtracts it from the
\* first slot and adds it to the second, leaving every other slot's count,
\* all timestamps, the number of DataPoints and the total unchanged.
C18_PerturbationPass ==
    [][(api = "generate_datapoints_even" /\ pc = "even_shuffle") =>
          /\ result'.kind \in {"none", "ok"}
          /\ pc' = "done" => iter = RoundedFifth(num_entries_to_generate)
          /\ Len(datapoints') = Len(datapoints)
          /\ \A k \in 1..Len(datapoints) :
               datapoints'[k].timestamp = datapoints[k].timestamp
          /\ SumCounts(datapoints') = SumCounts(datapoints)
          /\ \/ datapoints' = datapoints
             \/ \E first \in 1..Len(datapoints), second \in 1..Len(datapoints) :
                  /\ first # second
                  /\ \E delta \in 1..(datapoints[first].rows_to_add - 1) :
                       MovesDelta(first, second, delta)]_vars

----------------------------------------------------------------------------
(* C19: occupied candidate zones with a span shorter than 2 seconds *)

\* the zone the loop of line 354 is at
CurrentZone == data_zones[zone_cursor + 1]

\* the emission loop is at an occupied zone that spans less than 2 seconds
AtShortOccupiedZone ==
    /\ api = "generate_datapoints_sparse_fill"
    /\ pc \in {"sparse_emit", "zone_shuffle"}
    /\ zone_cursor < Len(data_zones)
    /\ CurrentZone.num_rows_to_add > 0
    /\ zone_duration(CurrentZone) < 2

\* C19: for every occupied candidate zone whose span is shorter than 2
\* seconds, generate_sparse_fill_zone_datapoints terminates without error and
\* yields a single DataPoint carrying the whole zone total, with no
\* perturbation applied.
C19_ShortZoneYieldsSingleDataPoint ==
    [][AtShortOccupiedZone =>
          LET single == <<DataPoint(CurrentZone.start_time,
                                    CurrentZone.num_rows_to_add)>>
          IN  /\ result' = result
              /\ pc = "sparse_emit" =>
                   pc' = "zone_shuffle" /\ data_points' = single
              /\ pc = "zone_shuffle" =>
                   pc' = "sparse_emit" /\ datapoints' = datapoints \o single]_vars

----------------------------------------------------------------------------
(* C20: the order and the place of the sparse-fill output *)

\* C20: the sparse-fill output is appended in zone time order: its
\* timestamps are strictly increasing across the whole sequence, every
\* emitted timestamp lies inside the span of a candidate slot with positive
\* allocation, and no DataPoint has a timestamp inside the span of a gap slot
\* (allocation 0).
C20_SparseOutputInZoneOrder ==
    api = "generate_datapoints_sparse_fill" =>
        /\ \A i \in 1..(Len(datapoints) - 1) :
             datapoints[i].timestamp < datapoints[i + 1].timestamp
        /\ \A i \in 1..Len(datapoints) :
             /\ \E k \in 1..Len(data_zones) :
                  /\ data_zones[k].num_rows_to_add > 0
                  /\ datapoints[i].timestamp \in Span(data_zones[k])
             /\ \A k \in 1..Len(data_zones) :
                  data_zones[k].num_rows_to_add = 0 =>
                      datapoints[i].timestamp \notin Span(data_zones[k])

\* the distributor returned the DataPoints of two occupied zones, with a
\* gap in the timestamps between them
C20_Witness ==
    /\ api = "generate_datapoints_sparse_fill"
    /\ Returned
    /\ result.kind = "ok"
    /\ Cardinality({k \in 1..Len(data_zones) :
                        data_zones[k].num_rows_to_add > 0}) = 2
    /\ \E i \in 1..(Len(datapoints) - 1) :
         datapoints[i + 1].timestamp > datapoints[i].timestamp + 1

----------------------------------------------------------------------------
(* generate_sparse_fill_zone_and_boundaries, lines 363-406, called directly *)

\* Zone lists of MinZones..MaxZones zones, every zone with a total of its
\* own (the list the distributor builds from a target equal to the number of
\* zones), or every zone but one.
PlacementZoneLists ==
    UNION {{[k \in 1..z |-> IF k = empty THEN 0 ELSE 1] : empty \in 0..z} :
               z \in MinZones..MaxZones}

\* the window of the first case of
\* test_generate_sparse_fill_zone_and_boundaries
PlacementDuration == 10 * 60

InitPlace ==
    /\ input = <<>>
    /\ cfg = NoConfig
    /\ overflow_checks \in BOOLEAN
    /\ api = "none"
    /\ pc = "start"
    /\ start_time = StartInstant
    /\ duration_in_seconds = PlacementDuration
    /\ num_entries_to_generate = 0
    /\ result = NoResult
    /\ clock_reads = <<>>
    /\ callee = "none"
    /\ datapoints = <<>>
    /\ sum = 0
    /\ iter = 0
    /\ num_of_zone = 0
    /\ zone_allocations \in PlacementZoneLists
    /\ data_zones = <<>>
    /\ zone_cursor = 0
    /\ data_points = <<>>
    /\ slots_length = 0
    /\ first_slot = 0
    /\ second_slot = 0

\* lines 369-394: the candidate slots are built, the loop of line 396 starts
CallZoneAndBoundaries ==
    /\ pc = "start"
    /\ api' = "generate_sparse_fill_zone_and_boundaries"
    /\ data_zones' = zone_boundaries(Len(zone_allocations),
                                     DEFAULT_SPARSE_FILL_ZONE_GENERATION_FACTOR,
                                     start_time, duration_in_seconds)
    /\ zone_cursor' = 0
    /\ pc' = "sparse_place"
    /\ UNCHANGED <<env_vars, clock_reads, callee, start_time, duration_in_seconds,
                   num_entries_to_generate, result, datapoints, sum, iter,
                   num_of_zone, zone_allocations, data_points, pick_vars>>

\* line 405: the Vec<DataZone> is returned
ZoneAndBoundariesReturn ==
    /\ api = "generate_sparse_fill_zone_and_boundaries"
    /\ pc = "sparse_place"
    /\ zone_cursor >= Len(zone_allocations)
    /\ Finish(Ok(data_zones))
    /\ UNCHANGED <<env_vars, call_vars, clock_reads, datapoints, sum, iter,
                   sparse_vars, pick_vars>>

NextPlace == CallZoneAndBoundaries \/ SparsePlace \/ ZoneAndBoundariesReturn

\* Fair draws: while a candidate slot is free the redraws of lines 397-403
\* eventually hit one (a draw of an occupied slot leaves the state as it is).
SpecPlace == InitPlace /\ [][NextPlace]_vars /\ WF_vars(NextPlace)

----------------------------------------------------------------------------
(* C21: zone placement always finds a free candidate slot *)

Placing ==
    /\ api = "generate_sparse_fill_zone_and_boundaries"
    /\ pc = "sparse_place"

\* C21: in sparse-fill zone placement with generation factor 3 and Z in
\* [3,6] zones, at every placement step at least one of the 3 x Z candidate
\* slots is still unallocated, so under fair random draws the redraw loop
\* terminates for every zone and placement as a whole eventually completes.
C21_PlacementFindsFreeSlot ==
    /\ [](Placing =>
            /\ Len(data_zones) = 3 * Len(zone_allocations)
            /\ free_slots(data_zones) # {}
            /\ result.kind # "hang")
    /\ Placing ~> (Returned /\ result.kind = "ok")

\* six zones, each with a total, were placed in six of the 18 candidate slots
C21_Witness ==
    /\ api = "generate_sparse_fill_zone_and_boundaries"
    /\ Returned
    /\ result.kind = "ok"
    /\ Len(zone_allocations) = MaxZones
    /\ \A i \in 1..Len(zone_allocations) : zone_allocations[i] > 0
    /\ Cardinality(free_slots(result.value)) = 2 * MaxZones

----------------------------------------------------------------------------
(* Durations written with a sign *)

\* the characters of the duration strings that may carry a sign
SignedAlphabet == {"-", "+", "1", "s"}
SignedStrings == UNION {[1..k -> SignedAlphabet] : k \in 0..MaxLen}

SignedCfgDurations ==
    {<<"-", "1", "s">>, <<"+", "1", "s">>, <<"1", "-", "s">>, <<"2", "s">>,
     <<"1", "x">>}

\* Configs for the even distributor that differ in their duration and in
\* where the start comes from
SignedConfigSpace ==
    [number_of_entries : {Some(ShuffledEntries)},
     timestamp_format : {Some(ValidFormat)},
     use_now_as_timestamp : {None, Some(FALSE)},
     generation_duration : {Some(d) : d \in SignedCfgDurations},
     start_timestamp : {Some(ValidTimestamp)},
     distribution_by : {Some(NameEven)}]

InitDurations ==
    /\ input \in SignedStrings
    /\ cfg \in SignedConfigSpace
    /\ overflow_checks \in BOOLEAN
    /\ api = "none"
    /\ pc = "start"
    /\ NoArguments
    /\ Idle

NextDurations ==
    \/ CallParseTimeDuration
    \/ CallGenerateTimeRange
    \/ CallGenerateDatapoints
    \/ NextEven

SpecDurations == InitDurations /\ [][NextDurations]_vars

----------------------------------------------------------------------------
(* C22: durations are never negative *)

\* C22: every duration that parse_time_duration returns successfully is
\* >= 0, a string that starts with a sign being refused; hence whenever
\* generate_time_range succeeds with a duration given, end >= start, and the
\* duration_in_seconds passed to a distributor is never negative.
C22_DurationsNeverNegative ==
    /\ (api = "parse_time_duration" /\ Returned) =>
         /\ result.kind = "ok" => result.value >= 0
         /\ (input # <<>> /\ input[1] \in {"-", "+"}) => result.kind = "err"
    /\ (api = "generate_time_range" /\ Returned /\ result.kind = "ok"
          /\ ~is_none(cfg.generation_duration)) =>
         result.value[2] >= result.value[1]
    /\ (api = "generate_datapoints" /\ callee # "none") =>
         duration_in_seconds >= 0

\* "-1s" was refused and "1-s" gave a zero duration
C22_Witness ==
    /\ api = "parse_time_duration"
    /\ Returned
    /\ \/ input = <<"-", "1", "s">> /\ result.kind = "err"
       \/ input = <<"1", "-", "s">> /\ result = Ok(0)

----------------------------------------------------------------------------
(* C23: what an occupied slot of at least 3 seconds emits *)

\* zone_span of line 381, once the candidate slots exist
ZoneSpan == duration_in_seconds \div Len(data_zones)

LongSlots ==
    /\ api = "generate_datapoints_sparse_fill"
    /\ data_zones # <<>>
    /\ ZoneSpan >= 3

====
